---------------------------- MODULE Spec2Model ----------------------------
(***************************************************************************)
(* A model of parsedatetime/context.py: the per-thread context stack       *)
(* pdtContextStack and the accuracy bitmask record pdtContext.             *)
(*                                                                         *)
(* Python values are modelled as strings, so that results of different     *)
(* Python types can be compared: "None", "True", "False", the names of     *)
(* raised exceptions ("AttributeError", "RuntimeError", "KeyError") and    *)
(* the identities of the context objects ("c1", "c2").                     *)
(***************************************************************************)
EXTENDS Integers, Sequences, FiniteSets, TLC

(* ---------------------------- bounds ----------------------------------- *)

\* Total number of recorded push/pop calls, over all threads.
MaxOps == 5

\* Largest number of positional arguments of one updateAccuracy call.
MaxArgs == 2

\* Number of push/pop calls where stack calls and context updates are mixed.
MaxRefOps == 3

\* Largest accuracy mask the queries are tried on: all unions of the nine
\* flags, and the masks with the next bit set as well.
MaxMask == 1023

\* The threads that use the one shared pdtContextStack instance.
Threads == {"t1", "t2"}

\* The pdtContext objects that exist (object identities on the heap).
Ctxs == {"c1", "c2"}

VARIABLES
    owner,      \* the thread that ran pdtContextStack.__init__
    local,      \* self.__local: per thread, the attribute namespace
    accuracy,   \* heap: the accuracy slot of every pdtContext object
    ret,        \* the last call: thread, operation, argument and outcome
    hist,       \* ghost: per thread, the push/pop calls it has made
    expect,     \* ghost: per context, the bits of its initial mask and of
                \* every flag given to a call on it that completed
    failed      \* ghost: per context, whether a call on it raised

vars == <<owner, local, accuracy, ret, hist, expect, failed>>

stackVars == <<owner, local, hist>>
ctxVars == <<accuracy, expect, failed>>

(* ------------------------- pdtContextStack ----------------------------- *)

\* A thread's view of a threading.local() object with no attribute set.
EmptyNS == [a \in {} |-> <<>>]

\* self.__local.stack evaluated in a namespace: the attribute must exist.
HasStackAttr(ns) == "stack" \in DOMAIN ns

\* Mutant of LocalOf: one namespace shared by all threads (a plain object
\* instead of threading.local()).
LocalShared(l, t) == l[CHOOSE u \in DOMAIN l : HasStackAttr(l[u])]

\* self.__local as seen from thread t: threading.local keeps one attribute
\* namespace per thread.
LocalOf(l, t) == l[t]

\* __init__, run by thread t: a fresh local() whose stack attribute is set
\* in the namespace of the constructing thread only.
StackInit(t) == [u \in Threads |-> IF u = t THEN [stack |-> <<>>] ELSE EmptyNS]

\* Mutant of push: the list is replaced by [ctx] instead of appended to.
pushAssign(ns, ctx) ==
    IF HasStackAttr(ns)
    THEN [ns |-> [ns EXCEPT !.stack = <<ctx>>], val |-> "None"]
    ELSE [ns |-> ns, val |-> "AttributeError"]

\* push(ctx): list.append on the thread's list.
push(ns, ctx) ==
    IF HasStackAttr(ns)
    THEN [ns |-> [ns EXCEPT !.stack = Append(@, ctx)], val |-> "None"]
    ELSE [ns |-> ns, val |-> "AttributeError"]

\* Mutant of ListPop: list.pop(0), the oldest element.
ListPopFirst(s) == [rest |-> SubSeq(s, 2, Len(s)), val |-> s[1]]

\* list.pop(): removes and returns the last element.
ListPop(s) == [rest |-> SubSeq(s, 1, Len(s) - 1), val |-> s[Len(s)]]

\* Mutant of pop: the IndexError of an empty list is not caught.
popNoCatch(ns) ==
    IF ~HasStackAttr(ns)
    THEN [ns |-> ns, val |-> "AttributeError"]
    ELSE IF Len(ns.stack) = 0
         THEN [ns |-> ns, val |-> "IndexError"]
         ELSE [ns |-> [ns EXCEPT !.stack = SubSeq(@, 1, Len(@) - 1)],
               val |-> ns.stack[Len(ns.stack)]]

\* Mutant of pop: the top is returned but not removed (stack[-1]).
popPeek(ns) ==
    IF ~HasStackAttr(ns)
    THEN [ns |-> ns, val |-> "AttributeError"]
    ELSE IF Len(ns.stack) = 0
         THEN [ns |-> ns, val |-> "None"]
         ELSE [ns |-> ns, val |-> ns.stack[Len(ns.stack)]]

\* pop(): list.pop(), with IndexError turned into None.
pop(ns) ==
    IF ~HasStackAttr(ns)
    THEN [ns |-> ns, val |-> "AttributeError"]
    ELSE IF Len(ns.stack) = 0
         THEN [ns |-> ns, val |-> "None"]
         ELSE [ns |-> [ns EXCEPT !.stack = ListPop(@).rest],
               val |-> ListPop(ns.stack).val]

\* Mutant of last: stack[0], the oldest element.
lastFirst(ns) ==
    IF ~HasStackAttr(ns)
    THEN "AttributeError"
    ELSE IF Len(ns.stack) = 0
         THEN "RuntimeError"
         ELSE ns.stack[1]

\* Mutant of last: the empty case answers None, as pop does.
lastNone(ns) ==
    IF ~HasStackAttr(ns)
    THEN "AttributeError"
    ELSE IF Len(ns.stack) = 0
         THEN "None"
         ELSE ns.stack[Len(ns.stack)]

\* last(): stack[-1], with IndexError turned into RuntimeError.
last(ns) ==
    IF ~HasStackAttr(ns)
    THEN "AttributeError"
    ELSE IF Len(ns.stack) = 0
         THEN "RuntimeError"
         ELSE ns.stack[Len(ns.stack)]

\* isEmpty(): not self.__local.stack
isEmpty(ns) ==
    IF ~HasStackAttr(ns)
    THEN "AttributeError"
    ELSE IF Len(ns.stack) = 0 THEN "True" ELSE "False"

\* Number of push/pop calls recorded so far.
RECURSIVE SumLen(_, _)
SumLen(h, S) ==
    IF S = {} THEN 0
    ELSE LET t == CHOOSE x \in S : TRUE
         IN Len(h[t]) + SumLen(h, S \ {t})

\* The record of a call: the calling thread (stack calls), the operation,
\* its argument (a context, or the receiver of a pdtContext method), its
\* outcome, and the positional arguments of an updateAccuracy call.
CallArgs(t, op, arg, val, args) ==
    [t |-> t, op |-> op, arg |-> arg, val |-> val, args |-> args]
Call(t, op, arg, val) == CallArgs(t, op, arg, val, <<>>)
Event(op, arg, res) == [op |-> op, arg |-> arg, res |-> res]

CallPush(t, ctx) ==
    /\ SumLen(hist, Threads) < MaxOps
    /\ LET r == push(LocalOf(local, t), ctx)
       IN /\ local' = [local EXCEPT ![t] = r.ns]
          /\ ret' = Call(t, "push", ctx, r.val)
          /\ hist' = [hist EXCEPT ![t] = Append(@, Event("push", ctx, r.val))]
    /\ UNCHANGED <<owner, ctxVars>>

CallPop(t) ==
    /\ SumLen(hist, Threads) < MaxOps
    /\ LET r == pop(LocalOf(local, t))
       IN /\ local' = [local EXCEPT ![t] = r.ns]
          /\ ret' = Call(t, "pop", "None", r.val)
          /\ hist' = [hist EXCEPT ![t] = Append(@, Event("pop", "None", r.val))]
    /\ UNCHANGED <<owner, ctxVars>>

CallLast(t) ==
    /\ ret' = Call(t, "last", "None", last(LocalOf(local, t)))
    /\ UNCHANGED <<stackVars, ctxVars>>

CallIsEmpty(t) ==
    /\ ret' = Call(t, "isEmpty", "None", isEmpty(LocalOf(local, t)))
    /\ UNCHANGED <<stackVars, ctxVars>>

(* ----------------------------- pdtContext ------------------------------ *)

ACU_YEAR == 1
ACU_MONTH == 2
ACU_WEEK == 4
ACU_DAY == 8
ACU_HALFDAY == 16
ACU_HOUR == 32
ACU_MIN == 64
ACU_SEC == 128
ACU_NOW == 256

\* Python's | and & on non-negative integers.
RECURSIVE BitOr(_, _)
BitOr(a, b) ==
    IF a = 0 THEN b
    ELSE IF b = 0 THEN a
    ELSE (IF a % 2 = 1 \/ b % 2 = 1 THEN 1 ELSE 0) + 2 * BitOr(a \div 2, b \div 2)

RECURSIVE BitAnd(_, _)
BitAnd(a, b) ==
    IF a = 0 \/ b = 0 THEN 0
    ELSE (IF a % 2 = 1 /\ b % 2 = 1 THEN 1 ELSE 0) + 2 * BitAnd(a \div 2, b \div 2)

RECURSIVE BitXor(_, _)
BitXor(a, b) ==
    IF a = 0 THEN b
    ELSE IF b = 0 THEN a
    ELSE (IF (a % 2) # (b % 2) THEN 1 ELSE 0) + 2 * BitXor(a \div 2, b \div 2)

\* Mutant of ACU_DATE: WEEK is left out.
ACU_DATE_NoWeek == BitOr(BitOr(ACU_YEAR, ACU_MONTH), ACU_DAY)

\* Mutant of ACU_TIME: NOW is left out.
ACU_TIME_NoNow == BitOr(BitOr(ACU_HALFDAY, ACU_HOUR), BitOr(ACU_MIN, ACU_SEC))

ACU_DATE == BitOr(BitOr(ACU_YEAR, ACU_MONTH), BitOr(ACU_WEEK, ACU_DAY))
ACU_TIME ==
    BitOr(BitOr(BitOr(ACU_HALFDAY, ACU_HOUR), BitOr(ACU_MIN, ACU_SEC)), ACU_NOW)

ACCURACY_REVERSE_MAPPING ==
    [year |-> ACU_YEAR, years |-> ACU_YEAR,
     month |-> ACU_MONTH, months |-> ACU_MONTH,
     week |-> ACU_WEEK, weeks |-> ACU_WEEK,
     day |-> ACU_DAY, days |-> ACU_DAY,
     halfday |-> ACU_HALFDAY, morning |-> ACU_HALFDAY,
     afternoon |-> ACU_HALFDAY, evening |-> ACU_HALFDAY,
     night |-> ACU_HALFDAY, tonight |-> ACU_HALFDAY,
     midnight |-> ACU_HALFDAY,
     hour |-> ACU_HOUR, hours |-> ACU_HOUR,
     min |-> ACU_MIN, minute |-> ACU_MIN, mins |-> ACU_MIN,
     minutes |-> ACU_MIN,
     sec |-> ACU_SEC, second |-> ACU_SEC, secs |-> ACU_SEC,
     seconds |-> ACU_SEC,
     now |-> ACU_NOW]

\* A positional argument of updateAccuracy: an int or a str.
PyInt(n) == [kind |-> "int", int |-> n, str |-> ""]
PyStr(x) == [kind |-> "str", int |-> 0, str |-> x]

\* isinstance(acc, int)
IsInt(e) == e.kind = "int"

\* The dictionary lookup of a str raises KeyError for a missing key.
Resolves(e) == IsInt(e) \/ e.str \in DOMAIN ACCURACY_REVERSE_MAPPING

\* if not isinstance(acc, int): acc = self._ACCURACY_REVERSE_MAPPING[acc]
Resolve(e) == IF IsInt(e) THEN e.int ELSE ACCURACY_REVERSE_MAPPING[e.str]

\* Mutant of OrInto: plain assignment.
OrAssign(acc, flag) == flag

\* Mutant of OrInto: ^= instead of |=.
OrToggle(acc, flag) == BitXor(acc, flag)

\* Mutant of OrInto: += instead of |=.
OrAdd(acc, flag) == acc + flag

\* self.accuracy |= acc
OrInto(acc, flag) == BitOr(acc, flag)

\* The loop of updateAccuracy over the remaining arguments, from the current
\* value of self.accuracy: the elements are resolved and OR-ed in one by one,
\* and a KeyError leaves the loop with what has been OR-ed in so far.
RECURSIVE UpdateLoop(_, _)
UpdateLoop(acc, args) ==
    IF Len(args) = 0 THEN [accuracy |-> acc, val |-> "None"]
    ELSE IF ~Resolves(Head(args)) THEN [accuracy |-> acc, val |-> "KeyError"]
    ELSE UpdateLoop(OrInto(acc, Resolve(Head(args))), Tail(args))

\* Mutant of updateAccuracy: all elements are resolved before any is applied.
updateAccuracyAtomic(acc, args) ==
    IF \E k \in 1..Len(args) : ~Resolves(args[k])
    THEN [accuracy |-> acc, val |-> "KeyError"]
    ELSE UpdateLoop(acc, args)

\* Mutant of updateAccuracy: an unknown label is skipped, the remaining
\* elements are still applied, and the error is raised at the end.
updateAccuracyEager(acc, args) ==
    [accuracy |-> UpdateLoop(acc, SelectSeq(args, Resolves)).accuracy,
     val |-> IF \E k \in 1..Len(args) : ~Resolves(args[k])
             THEN "KeyError" ELSE "None"]

\* updateAccuracy(*accuracy)
updateAccuracy(acc, args) == UpdateLoop(acc, args)

\* Mutant of update: the other mask is assigned (self.accuracy =
\* context.accuracy).
updateAssign(acc, other) == [accuracy |-> other, val |-> "None"]

\* update(context): self.updateAccuracy(context.accuracy)
update(acc, other) == updateAccuracy(acc, <<PyInt(other)>>)

\* bool(x) as the Python value it prints as.
PyBool(b) == IF b THEN "True" ELSE "False"

\* hasDate: bool(self.accuracy & self.ACU_DATE)
hasDate(acc) == BitAnd(acc, ACU_DATE) # 0

\* hasTime: bool(self.accuracy & self.ACU_TIME)
hasTime(acc) == BitAnd(acc, ACU_TIME) # 0

\* Mutant of dateTimeFlag: the two codes are exchanged.
dateTimeFlagSwapped(acc) ==
    BitOr(IF hasDate(acc) THEN 2 ELSE 0, IF hasTime(acc) THEN 1 ELSE 0)

\* dateTimeFlag: int(self.hasDate and 1) | int(self.hasTime and 2), where
\* (True and n) is n and int(False) is 0.
dateTimeFlag(acc) ==
    BitOr(IF hasDate(acc) THEN 1 ELSE 0, IF hasTime(acc) THEN 2 ELSE 0)

\* hasDateOrTime: bool(self.accuracy)
hasDateOrTime(acc) == acc # 0

\* Mutant of eq: the identity of the two objects is compared.
eqIdentity(c, d, acc) == c = d

\* __eq__(ctx): self.accuracy == ctx.accuracy, on the heap acc.
eq(c, d, acc) == acc[c] = acc[d]

\* A context passed as a positional argument.
PyCtx(d) == [kind |-> "ctx", int |-> 0, str |-> d]

\* Initial masks a context may be constructed with: 0 (the default) or DAY.
InitMasks == {0, ACU_DAY}

\* The positional arguments tried: a known label, a combined integer mask
\* and a label outside the table.
Elems ==
    {PyStr("months"), PyInt(BitOr(ACU_YEAR, ACU_HALFDAY)), PyStr("bogus")}

ArgLists == UNION {[1..n -> Elems] : n \in 0..MaxArgs}

\* The positions of the bits set in a mask.
Bits(n) == {i \in 0..9 : (n \div (2 ^ i)) % 2 = 1}

\* The flag a label stands for, by the position of its bit.
LabelBit ==
    [year |-> 0, years |-> 0, month |-> 1, months |-> 1, week |-> 2,
     weeks |-> 2, day |-> 3, days |-> 3, halfday |-> 4, morning |-> 4,
     afternoon |-> 4, evening |-> 4, night |-> 4, tonight |-> 4,
     midnight |-> 4, hour |-> 5, hours |-> 5, min |-> 6, minute |-> 6,
     mins |-> 6, minutes |-> 6, sec |-> 7, second |-> 7, secs |-> 7,
     seconds |-> 7, now |-> 8]

Known(e) == e.kind = "int" \/ e.str \in DOMAIN LabelBit

\* The bits of the flag an element resolves to.
FlagBits(e) ==
    IF e.kind = "int" THEN Bits(e.int)
    ELSE IF e.str \in DOMAIN LabelBit THEN {LabelBit[e.str]}
    ELSE {}

\* The bits of the flags of the elements args[1..k].
BitsUpTo(args, k) == UNION {FlagBits(args[j]) : j \in 1..k}

\* The position of the first unknown label of args, or Len(args) + 1.
FirstUnknown(args) ==
    IF \E k \in 1..Len(args) : ~Known(args[k])
    THEN CHOOSE k \in 1..Len(args) :
             /\ ~Known(args[k])
             /\ \A j \in 1..(k - 1) : Known(args[j])
    ELSE Len(args) + 1

CallUpdateAccuracy(c, args) ==
    /\ LET r == updateAccuracy(accuracy[c], args)
       IN /\ accuracy' = [accuracy EXCEPT ![c] = r.accuracy]
          /\ ret' = CallArgs("None", "updateAccuracy", c, r.val, args)
          /\ IF r.val = "None"
             THEN /\ expect' = [expect EXCEPT
                                   ![c] = @ \cup BitsUpTo(args, Len(args))]
                  /\ UNCHANGED failed
             ELSE /\ failed' = [failed EXCEPT ![c] = TRUE]
                  /\ UNCHANGED expect
    /\ UNCHANGED stackVars

CallUpdate(c, d) ==
    /\ LET r == update(accuracy[c], accuracy[d])
       IN /\ accuracy' = [accuracy EXCEPT ![c] = r.accuracy]
          /\ ret' = CallArgs("None", "update", c, r.val, <<PyInt(accuracy[d])>>)
          /\ expect' = [expect EXCEPT ![c] = @ \cup Bits(accuracy[d])]
    /\ UNCHANGED <<stackVars, failed>>

CallEq(c, d) ==
    /\ ret' = CallArgs("None", "eq", c, PyBool(eq(c, d, accuracy)),
                       <<PyCtx(d)>>)
    /\ UNCHANGED <<stackVars, ctxVars>>

CallHasDate(c) ==
    /\ ret' = Call("None", "hasDate", c, PyBool(hasDate(accuracy[c])))
    /\ UNCHANGED <<stackVars, ctxVars>>

CallHasTime(c) ==
    /\ ret' = Call("None", "hasTime", c, PyBool(hasTime(accuracy[c])))
    /\ UNCHANGED <<stackVars, ctxVars>>

CallDateTimeFlag(c) ==
    /\ ret' = Call("None", "dateTimeFlag", c, dateTimeFlag(accuracy[c]))
    /\ UNCHANGED <<stackVars, ctxVars>>

CallHasDateOrTime(c) ==
    /\ ret' = Call("None", "hasDateOrTime", c,
                   PyBool(hasDateOrTime(accuracy[c])))
    /\ UNCHANGED <<stackVars, ctxVars>>

(* -------------------------- specifications ----------------------------- *)

Init ==
    /\ owner \in Threads
    /\ local = StackInit(owner)
    /\ accuracy \in [Ctxs -> InitMasks]
    /\ expect = [c \in Ctxs |-> Bits(accuracy[c])]
    /\ failed = [c \in Ctxs |-> FALSE]
    /\ hist = [t \in Threads |-> <<>>]
    /\ ret = Call(owner, "init", "None", "None")

NextStack ==
    \E t \in Threads :
        \/ \E ctx \in Ctxs : CallPush(t, ctx)
        \/ CallPop(t)
        \/ CallLast(t)
        \/ CallIsEmpty(t)

SpecStack == Init /\ [][NextStack]_vars

NextCtx ==
    \E c \in Ctxs :
        \/ \E args \in ArgLists : CallUpdateAccuracy(c, args)
        \/ \E d \in Ctxs : CallUpdate(c, d)
        \/ \E d \in Ctxs : CallEq(c, d)

\* The context calls do not touch the stack: its constructing thread is
\* fixed here (the threads are interchangeable).
InitCtx == Init /\ owner = "t1"

SpecCtx == InitCtx /\ [][NextCtx]_vars

\* The queries are functions of one mask: context c1 is constructed with
\* any mask up to MaxMask, c2 with the default.
InitQuery ==
    /\ owner = "t1"
    /\ local = StackInit(owner)
    /\ \E m \in 0..MaxMask :
          accuracy = [c \in Ctxs |-> IF c = "c1" THEN m ELSE 0]
    /\ expect = [c \in Ctxs |-> Bits(accuracy[c])]
    /\ failed = [c \in Ctxs |-> FALSE]
    /\ hist = [t \in Threads |-> <<>>]
    /\ ret = Call(owner, "init", "None", "None")

NextQuery ==
    \E c \in Ctxs :
        \/ CallHasDate(c)
        \/ CallHasTime(c)
        \/ CallDateTimeFlag(c)
        \/ CallHasDateOrTime(c)

SpecQuery == InitQuery /\ [][NextQuery]_vars

\* Stack calls mixed with updates of the contexts, on or off the stack: the
\* contexts start with the default mask and an update has one argument.
InitRef == Init /\ owner = "t1" /\ accuracy = [c \in Ctxs |-> 0]

NextRef ==
    \/ \E t \in Threads :
          \/ /\ SumLen(hist, Threads) < MaxRefOps
             /\ \/ \E ctx \in Ctxs : CallPush(t, ctx)
                \/ CallPop(t)
          \/ CallLast(t)
    \/ \E c \in Ctxs : \E e \in Elems : CallUpdateAccuracy(c, <<e>>)

SpecRef == InitRef /\ [][NextRef]_vars

Next == NextStack \/ NextCtx \/ NextQuery

Spec == Init /\ [][Next]_vars


(* --------------------- claims on pdtContextStack ----------------------- *)

\* Reference notions, computed from a thread's own call history only.

Max(S) == CHOOSE x \in S : \A y \in S : y <= x

Prefix(h, k) == SubSeq(h, 1, k)

\* The number of push calls, and of pop calls, in a history.
NPush(h) == Cardinality({k \in 1..Len(h) : h[k].op = "push"})
NPop(h) == Cardinality({k \in 1..Len(h) : h[k].op = "pop"})

\* The positions of the pushes of h that have not been popped: a pop takes
\* away the most recent of them.
RECURSIVE Open(_)
Open(h) ==
    IF Len(h) = 0 THEN {}
    ELSE LET before == Open(Prefix(h, Len(h) - 1))
             e == h[Len(h)]
         IN IF e.op = "push"
            THEN before \cup {Len(h)}
            ELSE (IF before = {} THEN before ELSE before \ {Max(before)})

\* The contexts of the open pushes, oldest first.
RECURSIVE InOrder(_, _)
InOrder(h, S) ==
    IF S = {} THEN <<>>
    ELSE Append(InOrder(h, S \ {Max(S)}), h[Max(S)].arg)

\* What a call of thread t must return, given only t's own earlier calls h
\* and whether t is the thread that constructed the stack.
OwnResult(t, op, h) ==
    IF t # owner THEN "AttributeError"
    ELSE IF op = "push" THEN "None"
    ELSE IF op = "isEmpty" THEN (IF Open(h) = {} THEN "True" ELSE "False")
    ELSE IF op = "last"
         THEN (IF Open(h) = {} THEN "RuntimeError" ELSE h[Max(Open(h))].arg)
    ELSE (IF Open(h) = {} THEN "None" ELSE h[Max(Open(h))].arg)

\* The step is a push/pop call of thread t.
IsStep(t, op) ==
    /\ ret'.t = t
    /\ ret'.op = op
    /\ Len(hist'[t]) = Len(hist[t]) + 1

Depth(t) == Len(local[t].stack)

\* C1: for every thread that uses the shared stack, the thread's sequence is
\* empty on first use, so push never fails, and isEmpty() and pop() on first
\* use behave as on an empty stack. (The code sets the stack attribute only in
\* the constructing thread: in any other thread every call raises.)
C1_PushNeverFails ==
    /\ ret.op = "push" => ret.val = "None"
    /\ (ret.op = "isEmpty" /\ Len(hist[ret.t]) = 0) => ret.val = "True"
    /\ (ret.op = "pop" /\ Len(hist[ret.t]) = 1) => ret.val = "None"

\* C2: under any interleaving, the result of each call of a thread is the one
\* determined by that thread's own earlier calls, and the sequence of a thread
\* holds exactly the contexts of its own open pushes: no thread observes or
\* removes a context pushed by another thread.
C2_ThreadIsolation ==
    /\ \A t \in Threads :
        /\ HasStackAttr(local[t]) <=> (t = owner)
        /\ HasStackAttr(local[t]) =>
               local[t].stack = InOrder(hist[t], Open(hist[t]))
    /\ ret.op \in {"push", "pop"} =>
           ret.val = OwnResult(ret.t, ret.op,
                               Prefix(hist[ret.t], Len(hist[ret.t]) - 1))
    /\ ret.op \in {"last", "isEmpty"} =>
           ret.val = OwnResult(ret.t, ret.op, hist[ret.t])

\* C2 witness: both threads have pushed, and the constructing thread then
\* reads its own context back although the other thread pushed a different
\* one in between.
C2_Witness ==
    \E u \in Threads :
        /\ u # owner
        /\ hist[owner] = <<Event("push", "c1", "None")>>
        /\ Len(hist[u]) = 2
        /\ hist[u][1].op = "push" /\ hist[u][1].arg = "c2"
        /\ hist[u][2].op = "pop"
        /\ ret = Call(owner, "last", "None", "c1")

\* C3: within one thread (one that has a stack), each pop on a non-empty stack returns the most
\* recently pushed context that has not yet been popped; in particular a push
\* of x immediately followed by a pop returns x.
C3_LIFO ==
    \A t \in Threads : \A k \in 1..Len(hist[t]) :
        LET before == Prefix(hist[t], k - 1)
        IN (HasStackAttr(local[t]) /\ hist[t][k].op = "pop"
                /\ Open(before) # {}) =>
               /\ hist[t][k].res = hist[t][Max(Open(before))].arg
               /\ hist[t][k - 1].op = "push"
                      => hist[t][k].res = hist[t][k - 1].arg

\* C3 witness: push c1, push c2, pop, pop, push c2, with the pops returning
\* c2 and then c1.
C3_Witness ==
    \E t \in Threads :
        /\ Len(hist[t]) >= 4
        /\ hist[t][1] = Event("push", "c1", "None")
        /\ hist[t][2] = Event("push", "c2", "None")
        /\ hist[t][3] = Event("pop", "None", "c2")
        /\ hist[t][4] = Event("pop", "None", "c1")

\* C4: a pop on an empty stack does not raise: it returns None and the stack
\* is still empty, whatever came before.
C4_PopEmptyReturnsNone ==
    [][\A t \in Threads :
          (HasStackAttr(local[t]) /\ Depth(t) = 0 /\ IsStep(t, "pop")) =>
              /\ ret'.val = "None"
              /\ HasStackAttr(local'[t])
              /\ Len(local'[t].stack) = 0]_vars

\* C4 witness: after a push and a pop, two more pops in a row returned None.
C4_Witness ==
    \E t \in Threads :
        /\ HasStackAttr(local[t])
        /\ Len(hist[t]) = 4
        /\ hist[t][1].op = "push"
        /\ hist[t][2].op = "pop"
        /\ hist[t][3] = Event("pop", "None", "None")
        /\ hist[t][4] = Event("pop", "None", "None")
        /\ Depth(t) = 0
        /\ ret = Call(t, "pop", "None", "None")

\* C5: last() on an empty stack raises RuntimeError instead of returning a
\* value, and the stack is still empty afterwards.
C5_LastEmptyRaises ==
    [][\A t \in Threads :
          (HasStackAttr(local[t]) /\ Depth(t) = 0
              /\ ret'.t = t /\ ret'.op = "last") =>
              /\ ret'.val = "RuntimeError"
              /\ local' = local]_vars

\* C5 witness: last() raised RuntimeError on a stack emptied by a pop.
C5_Witness ==
    \E t \in Threads :
        /\ HasStackAttr(local[t])
        /\ Depth(t) = 0
        /\ Len(hist[t]) = 2
        /\ hist[t][2].op = "pop" /\ hist[t][2].res \in Ctxs
        /\ ret = Call(t, "last", "None", "RuntimeError")

\* No pop of the history was issued on an empty stack (none returned None).
NoPopOnEmpty(h) == \A k \in 1..Len(h) : ~(h[k].op = "pop" /\ h[k].res = "None")

\* C9, as stated: after equal numbers of push and pop calls in one thread,
\* isEmpty() is true, for every ordering of those calls, including orderings
\* with a pop issued while the stack is empty.
C9_EqualCountsEmpty ==
    \A t \in Threads :
        (HasStackAttr(local[t]) /\ NPush(hist[t]) = NPop(hist[t])) =>
            isEmpty(LocalOf(local, t)) = "True"

\* C9, amended: after equal numbers of push and pop calls in one thread, none
\* of the pops issued while the stack was empty, isEmpty() is true where the
\* thread's sequence exists and raises AttributeError where it does not; it
\* is never false.
C9_MatchedCountsEmpty ==
    \A t \in Threads :
        (NPush(hist[t]) = NPop(hist[t]) /\ NoPopOnEmpty(hist[t])) =>
            isEmpty(LocalOf(local, t)) =
                (IF HasStackAttr(local[t]) THEN "True" ELSE "AttributeError")

\* C9 witness: two pushes and two pops, every pop matched, stack empty.
C9_Witness ==
    \E t \in Threads :
        /\ HasStackAttr(local[t])
        /\ NPush(hist[t]) = 2
        /\ NPop(hist[t]) = 2
        /\ NoPopOnEmpty(hist[t])
        /\ ret = Call(t, "isEmpty", "None", "True")

\* C10: the depth is the state of a thread's stack: push takes depth N to
\* N+1, pop takes N >= 1 to N-1 and leaves 0 at 0, isEmpty() is true iff the
\* depth is 0, and after N pushes and fewer than N pops isEmpty() is false.
DepthQuery(l, h) ==
    \A t \in Threads :
        HasStackAttr(l[t]) =>
            /\ (isEmpty(LocalOf(l, t)) = "True") <=> (Len(l[t].stack) = 0)
            /\ isEmpty(LocalOf(l, t)) \in {"True", "False"}
            /\ NPush(h[t]) > NPop(h[t]) => isEmpty(LocalOf(l, t)) = "False"

C10_DepthMachine ==
    [][/\ DepthQuery(local, hist)
       /\ DepthQuery(local', hist')
       /\ \A t \in Threads :
            HasStackAttr(local[t]) =>
                /\ HasStackAttr(local'[t])
                /\ IsStep(t, "push") => Len(local'[t].stack) = Depth(t) + 1
                /\ (IsStep(t, "pop") /\ Depth(t) >= 1)
                       => Len(local'[t].stack) = Depth(t) - 1
                /\ (IsStep(t, "pop") /\ Depth(t) = 0)
                       => Len(local'[t].stack) = 0]_vars

\* C10 witness: three pushes and one pop leave depth 2, and isEmpty() has
\* just answered false.
C10_Witness ==
    \E t \in Threads :
        /\ HasStackAttr(local[t])
        /\ NPush(hist[t]) = 3
        /\ NPop(hist[t]) = 1
        /\ Depth(t) = 2
        /\ ret = Call(t, "isEmpty", "None", "False")

\* C11: last() on a non-empty stack returns the context the next pop()
\* returns and changes neither the contents nor the depth of the stack; a
\* repeated last() returns the same context.
C11_PeekKeepsTop ==
    [][/\ \A t \in Threads :
            (HasStackAttr(local[t]) /\ Depth(t) >= 1
                /\ ret'.t = t /\ ret'.op = "last") =>
                /\ ret'.val \in Ctxs
                /\ ret'.val = pop(LocalOf(local', t)).val
                /\ ret'.val = last(LocalOf(local', t))
                /\ local' = local
                /\ hist' = hist
       /\ (ret.op = "last" /\ ret.val \in Ctxs /\ IsStep(ret.t, "pop"))
              => ret'.val = ret.val]_vars

\* C11 witness: last() has answered c2 on the stack c1, c2, which is still
\* there.
C11_Witness ==
    \E t \in Threads :
        /\ HasStackAttr(local[t])
        /\ local[t].stack = <<"c1", "c2">>
        /\ ret = Call(t, "last", "None", "c2")

(* ------------------------ claims on pdtContext ------------------------- *)

\* C6, as stated: an updateAccuracy call that receives a label outside the
\* table raises the unknown-label error and leaves accuracy unchanged, with
\* no partial mutation from the elements before the failing one.
C6_NoPartialMutation ==
    [][(ret'.op = "updateAccuracy" /\ ret'.val = "KeyError")
           => accuracy' = accuracy]_vars

\* C6, amended: an updateAccuracy call raises KeyError exactly when an
\* argument is a label outside the table, and then the flags of the elements
\* before the first such label have been OR-ed into the accuracy of the
\* receiver (so it is unchanged when that label comes first); no other
\* context changes.
C6_PartialMutation ==
    [][ret'.op = "updateAccuracy" =>
          LET c == ret'.arg
              args == ret'.args
              k == FirstUnknown(args)
          IN /\ (ret'.val = "KeyError") <=> (k <= Len(args))
             /\ ret'.val = "KeyError" =>
                   /\ Bits(accuracy'[c]) =
                          Bits(accuracy[c]) \cup BitsUpTo(args, k - 1)
                   /\ k = 1 => accuracy' = accuracy
                   /\ \A d \in Ctxs \ {c} : accuracy'[d] = accuracy[d]]_vars

\* C6 witness: a context constructed with 0 whose only call, with
\* ("months", "bogus"), raised KeyError and left MONTH set.
C6_Witness ==
    /\ ret.op = "updateAccuracy"
    /\ ret.val = "KeyError"
    /\ ret.args = <<PyStr("months"), PyStr("bogus")>>
    /\ expect[ret.arg] = {}
    /\ accuracy[ret.arg] = ACU_MONTH

\* C7: after any sequence of updateAccuracy and update calls on a context
\* that all completed, accuracy is the initial mask OR-ed with the union of
\* all flags given, whatever their order and repetitions.
C7_UnionOfFlags ==
    \A c \in Ctxs : ~failed[c] => Bits(accuracy[c]) = expect[c]

\* C7 witness: a context constructed with DAY that got YEAR|HALFDAY, and
\* then "months" twice in one call.
C7_Witness ==
    /\ ret.op = "updateAccuracy"
    /\ ret.val = "None"
    /\ ret.args = <<PyStr("months"), PyStr("months")>>
    /\ ~failed[ret.arg]
    /\ accuracy[ret.arg] = ACU_YEAR + ACU_MONTH + ACU_DAY + ACU_HALFDAY

\* C8: no updateAccuracy or update call, failing or not, clears a bit that
\* is set in the accuracy of a context.
C8_Monotonic ==
    [][\A c \in Ctxs : Bits(accuracy[c]) \subseteq Bits(accuracy'[c])]_vars

\* C8 witness: a context on which a call failed holds all the bits after a
\* merge from the other context.
C8_Witness ==
    \E d \in Ctxs :
        /\ ret.op = "update"
        /\ ret.arg # d
        /\ failed[ret.arg]
        /\ ret.args = <<PyInt(accuracy[d])>>
        /\ accuracy[d] = ACU_YEAR + ACU_HALFDAY
        /\ accuracy[ret.arg] = ACU_YEAR + ACU_MONTH + ACU_DAY + ACU_HALFDAY

\* The mask of a context after another context's mask is merged into it.
Merged(a, b) == update(a, b).accuracy

\* Merging x and y commutes, and merging them with any mask of M does not
\* depend on the grouping nor on the order of the two merges.
MergeAlgebra(x, y, M) ==
    /\ Merged(x, y) = Merged(y, x)
    /\ \A z \in M :
          /\ Merged(Merged(x, y), z) = Merged(x, Merged(y, z))
          /\ Merged(Merged(x, y), z) = Merged(Merged(x, z), y)
          /\ Merged(Merged(z, x), y) = Merged(Merged(z, y), x)

\* The masks at hand in a state: those of the contexts and the initial ones.
MasksOf(acc) == {acc[c] : c \in Ctxs} \cup InitMasks

\* C12: A.update(B) does what A.updateAccuracy(B.accuracy) does: it completes,
\* A's mask becomes A|B and no other context changes; on masks, merging is
\* commutative and associative, so the mask got by merging several contexts
\* depends neither on the order nor on the grouping.
C12_MergeIsOr ==
    [][ret'.op = "update" =>
          LET c == ret'.arg
              b == ret'.args[1].int
          IN /\ ret'.val = "None"
             /\ \E d \in Ctxs : accuracy[d] = b
             /\ accuracy'[c] =
                    updateAccuracy(accuracy[c], <<PyInt(b)>>).accuracy
             /\ Bits(accuracy'[c]) = Bits(accuracy[c]) \cup Bits(b)
             /\ \A d \in Ctxs \ {c} : accuracy'[d] = accuracy[d]
             /\ MergeAlgebra(accuracy[c], b, MasksOf(accuracy))]_vars

\* C12 witness: a context holding MONTH has just absorbed YEAR|HALFDAY from
\* the other context.
C12_Witness ==
    \E d \in Ctxs :
        /\ ret.op = "update"
        /\ ret.arg # d
        /\ ret.args = <<PyInt(accuracy[d])>>
        /\ accuracy[d] = ACU_YEAR + ACU_HALFDAY
        /\ accuracy[ret.arg] = ACU_YEAR + ACU_MONTH + ACU_HALFDAY

\* The nine named flags, and the masks that are unions of some of them.
NamedFlags ==
    {ACU_YEAR, ACU_MONTH, ACU_WEEK, ACU_DAY, ACU_HALFDAY, ACU_HOUR, ACU_MIN,
     ACU_SEC, ACU_NOW}

IsUnionOfFlags(n) ==
    /\ n \in 0..(2 * ACU_NOW - 1)
    /\ \A i \in Bits(n) : 2 ^ i \in NamedFlags

\* C13: a context constructed with 0 or with a union of named flags, and
\* updated only with named flags, unions of them, labels and merges of such
\* contexts, always holds a union of the nine named flags: 0 <= accuracy <=
\* 511.
C13_UnionOfNamedFlags ==
    \A c \in Ctxs : IsUnionOfFlags(accuracy[c])

\* C13 witness: after updates, a failed call and a merge, both contexts hold
\* YEAR|MONTH|DAY|HALFDAY.
C13_Witness ==
    /\ ret.op = "update"
    /\ \E c \in Ctxs : failed[c]
    /\ \A c \in Ctxs :
          accuracy[c] = ACU_YEAR + ACU_MONTH + ACU_DAY + ACU_HALFDAY

\* C17: updateAccuracy takes its arguments one at a time: when the error of
\* an unknown label propagates, every bit of an element before the first
\* unknown label is set, and an element after it has set no bit (a bit is
\* set afterwards only if it was set before the call or belongs to an element
\* before that label).
C17_LazyResolution ==
    [][(ret'.op = "updateAccuracy" /\ ret'.val = "KeyError") =>
          LET c == ret'.arg
              args == ret'.args
              k == FirstUnknown(args)
          IN /\ k \in 1..Len(args)
             /\ \A j \in 1..(k - 1) :
                   FlagBits(args[j]) \subseteq Bits(accuracy'[c])
             /\ \A j \in (k + 1)..Len(args) :
                   \A i \in FlagBits(args[j]) :
                       i \in Bits(accuracy'[c]) =>
                           \/ i \in Bits(accuracy[c])
                           \/ \E m \in 1..(k - 1) : i \in FlagBits(args[m])
             /\ Bits(accuracy[c]) \subseteq Bits(accuracy'[c])]_vars

\* C17 witness: a call with ("bogus", "months") raised on a context holding
\* YEAR|HALFDAY, and MONTH is not set.
C17_Witness ==
    /\ ret.op = "updateAccuracy"
    /\ ret.val = "KeyError"
    /\ ret.args = <<PyStr("bogus"), PyStr("months")>>
    /\ accuracy[ret.arg] = ACU_YEAR + ACU_HALFDAY

\* C16: two contexts compare equal iff their masks are equal, however each
\* mask was built up (labels, combined integers, failed calls, merges).
C16_EqualIffSameMask ==
    ret.op = "eq" =>
        LET c == ret.arg
            d == ret.args[1].str
        IN /\ ret.val \in {"True", "False"}
           /\ (ret.val = "True") <=> (Bits(accuracy[c]) = Bits(accuracy[d]))

\* C16 witness: two distinct contexts with the mask YEAR|MONTH|HALFDAY
\* compare equal, one built through a call that raised, the other through
\* completed calls only.
C16_Witness ==
    /\ ret.op = "eq"
    /\ ret.val = "True"
    /\ ret.arg # ret.args[1].str
    /\ accuracy[ret.arg] = ACU_YEAR + ACU_MONTH + ACU_HALFDAY
    /\ failed[ret.arg]
    /\ ~failed[ret.args[1].str]
    /\ expect[ret.arg] # expect[ret.args[1].str]

(* --------------------- claims on the queries --------------------------- *)

\* The bit positions of the date flags and of the time flags.
DateBits == {LabelBit.year, LabelBit.month, LabelBit.week, LabelBit.day}
TimeBits ==
    {LabelBit.halfday, LabelBit.hour, LabelBit.min, LabelBit.sec, LabelBit.now}

\* C14: dateTimeFlag is one of 0, 1, 2, 3, with bit 0 set iff hasDate and
\* bit 1 set iff hasTime, for every mask.
C14_DateTimeFlagCode ==
    ret.op = "dateTimeFlag" =>
        LET a == accuracy[ret.arg]
        IN /\ ret.val \in 0..3
           /\ (ret.val % 2 = 1) <=> hasDate(a)
           /\ (ret.val \div 2 = 1) <=> hasTime(a)
           /\ ret.val = (IF hasDate(a) THEN 1 ELSE 0)
                          + (IF hasTime(a) THEN 2 ELSE 0)

\* C14 witness: the mask YEAR|NOW has the code 3.
C14_Witness ==
    /\ ret.op = "dateTimeFlag"
    /\ accuracy[ret.arg] = ACU_YEAR + ACU_NOW
    /\ ret.val = 3

\* C15: hasDate is true iff one of YEAR, MONTH, WEEK, DAY is set, and
\* hasTime iff one of HALFDAY, HOUR, MIN, SEC, NOW is set, for every mask.
C15_HasDateHasTime ==
    /\ \A c \in Ctxs :
          /\ hasDate(accuracy[c]) <=> (Bits(accuracy[c]) \cap DateBits # {})
          /\ hasTime(accuracy[c]) <=> (Bits(accuracy[c]) \cap TimeBits # {})
    /\ ret.op = "hasDate" =>
          (ret.val = "True") <=> (Bits(accuracy[ret.arg]) \cap DateBits # {})
    /\ ret.op = "hasTime" =>
          (ret.val = "True") <=> (Bits(accuracy[ret.arg]) \cap TimeBits # {})
    /\ ret.op \in {"hasDate", "hasTime"} => ret.val \in {"True", "False"}

\* C15 witness: with WEEK|SEC, hasTime has answered true and hasDate is
\* true as well.
C15_Witness ==
    /\ ret.op = "hasTime"
    /\ ret.val = "True"
    /\ accuracy[ret.arg] = ACU_WEEK + ACU_SEC
    /\ hasDate(accuracy[ret.arg])

\* C18: for a mask that is a union of the nine named flags, hasDateOrTime
\* equals (hasDate or hasTime) and dateTimeFlag is 0 iff the mask is 0: the
\* queries disagree only on a mask with a bit outside the nine flags.
C18_QueriesAgree ==
    /\ \A c \in Ctxs :
          LET a == accuracy[c]
          IN IsUnionOfFlags(a) =>
                /\ hasDateOrTime(a) <=> (hasDate(a) \/ hasTime(a))
                /\ (dateTimeFlag(a) = 0) <=> (a = 0)
    /\ (ret.op = "hasDateOrTime" /\ IsUnionOfFlags(accuracy[ret.arg])) =>
          ret.val = PyBool(hasDate(accuracy[ret.arg])
                               \/ hasTime(accuracy[ret.arg]))

\* C18 witness: with NOW alone, hasDateOrTime has answered true, hasTime is
\* true and dateTimeFlag is 2.
C18_Witness ==
    /\ ret.op = "hasDateOrTime"
    /\ ret.val = "True"
    /\ accuracy[ret.arg] = ACU_NOW
    /\ hasTime(accuracy[ret.arg])
    /\ dateTimeFlag(accuracy[ret.arg]) = 2

(* ------------------ claims on stack and contexts ----------------------- *)

\* C19: the stack holds the context objects themselves. An updateAccuracy on
\* the context last() has just returned leaves the stack as it is, changes
\* no other context, and acts on the object the next pop() of that thread
\* returns; no stack call changes a mask, so a popped context shows every
\* flag given to it by completed calls.
C19_HeldByReference ==
    [][/\ (ret.op = "last" /\ ret.val \in Ctxs
              /\ ret'.op = "updateAccuracy" /\ ret'.arg = ret.val) =>
            LET t == ret.t
                c == ret.val
                k == FirstUnknown(ret'.args)
            IN /\ local' = local
               /\ Len(local'[t].stack) = Depth(t)
               /\ \A d \in Ctxs \ {c} : accuracy'[d] = accuracy[d]
               /\ Bits(accuracy'[c]) =
                      Bits(accuracy[c]) \cup BitsUpTo(ret'.args, k - 1)
               /\ pop(LocalOf(local', t)).val = c
       /\ ret'.op = "updateAccuracy" => local' = local
       /\ ret'.op \in {"push", "pop", "last"} => accuracy' = accuracy
       /\ (ret'.op = "pop" /\ ret'.val \in Ctxs /\ ~failed'[ret'.val]) =>
              Bits(accuracy'[ret'.val]) = expect'[ret'.val]]_vars

\* C19 witness: with c1 and c2 on the stack, "months" has been given to c2,
\* the top: c2 holds MONTH, c1 nothing, and the depth is still 2.
C19_Witness ==
    /\ ret.op = "updateAccuracy"
    /\ ret.arg = "c2"
    /\ ret.args = <<PyStr("months")>>
    /\ local[owner].stack = <<"c1", "c2">>
    /\ last(LocalOf(local, owner)) = "c2"
    /\ accuracy["c2"] = ACU_MONTH
    /\ accuracy["c1"] = 0

=============================================================================
